---- MODULE Spec2Model ----
(***************************************************************************)
(* A model of mteb/evaluation/MTEB.py: the evaluation session that         *)
(* discovers the task classes, selects the tasks to run, loads their data  *)
(* and runs a model over every evaluation split of every selected task,    *)
(* writing one result file per task and skipping tasks whose file exists.  *)
(***************************************************************************)
EXTENDS Integers, Sequences, FiniteSets, TLC

(***************************************************************************)
(* Bounds of the model.                                                    *)
(***************************************************************************)
\* longest explicit `tasks` list task selection is checked on
MaxListLen == 3
\* longest explicit `tasks` list of a session that is run
MaxRunListLen == 2
\* number of run() calls made on one session
MaxRuns == 2
\* evaluate() returns a score in 1..MaxScore
MaxScore == 2

(***************************************************************************)
(* Python's None: an optional value is a record with a presence flag.      *)
(***************************************************************************)
None(dflt) == [some |-> FALSE, val |-> dflt]
Some(v) == [some |-> TRUE, val |-> v]

(***************************************************************************)
(* The task abstraction (AbsTask and its subclasses).  A Task Instance is  *)
(* identified by a number; description[i] is its descriptor and            *)
(* save_suffix[i] its file-name suffix.  Instances 1..3 are the ones the   *)
(* session makes of the registered classes; 4 and 5 are instances the      *)
(* caller made and passes in the explicit list: 4 is a second instance of  *)
(* the class of 1, 5 an instance of a class that is not registered.        *)
(***************************************************************************)
Classes == {1, 2, 3}
CallerInstances == {4, 5}
Instances == Classes \cup CallerInstances

description ==
  [i \in Instances |->
     CASE i = 1 -> [name |-> "A", type |-> "X", category |-> "s2s", version |-> 1,
                    eval_splits |-> <<"test">>]
       [] i = 2 -> [name |-> "B", type |-> "Y", category |-> "s2s", version |-> 2,
                    eval_splits |-> <<"validation", "test">>]
       [] i = 3 -> [name |-> "C", type |-> "X", category |-> "p2p", version |-> 2,
                    eval_splits |-> <<"test">>]
       [] i = 4 -> [name |-> "A", type |-> "X", category |-> "s2s", version |-> 1,
                    eval_splits |-> <<"test">>]
       [] i = 5 -> [name |-> "D", type |-> "Y", category |-> "p2p", version |-> 3,
                    eval_splits |-> <<"test", "test">>]]

save_suffix == [i \in Instances |-> IF i = 5 THEN "_x" ELSE ""]

TaskTypes == {"X", "Y"}
TaskCategories == {"s2s", "p2p"}
Versions == 1..3
\* names a caller may put in the explicit list
Names == {"A", "B", "C"}

(***************************************************************************)
(* An element of the explicit `tasks` list: a name (a str) or a Task       *)
(* Instance.                                                              *)
(***************************************************************************)
ByName(n) == [kind |-> "str", name |-> n, inst |-> 0]
ByInstance(i) == [kind |-> "AbsTask", name |-> "", inst |-> i]
ListElements == {ByName(n) : n \in Names} \cup {ByInstance(i) : i \in CallerInstances}

\* isinstance(x, AbsTask)
isinstance_AbsTask(x) == x.kind = "AbsTask"

\* name in self._tasks : Python compares the str with every element; a str
\* equals only an equal str, never a Task Instance
in_tasks(n, L) == \E k \in 1..Len(L) : L[k].kind = "str" /\ L[k].name = n

VARIABLES
  subclasses,       \* the registered task classes, in discovery order
  task_types,       \* self._task_types
  task_categories,  \* self._task_categories
  version,          \* self._version
  given_tasks,      \* self._tasks
  tasks_cls,        \* self.tasks_cls
  tasks,            \* self.tasks
  pc,               \* "new", "loading", "ctor_raised", "ready" or "running"
  load_pos,         \* load_tasks_data: position of its loop in self.tasks
  output_folder,    \* run: its output_folder argument
  task_pos,         \* run: position of the task loop in self.tasks
  loop,             \* run: "head" (before the exists check) or "splits"
  split_pos,        \* run: position of the split loop in eval_splits
  task_results,     \* run: the dict task_results
  dirs,             \* the file system: the directories that exist
  files,            \* the file system: path -> content of every file
  outcome,          \* how the last run() ended: "none", "returned", "raised"
  runs,             \* history: number of run() calls so far
  loadLog,          \* history: the instances load_data() was called on
  evalLog,          \* history: the evaluate() calls of the current run
  returned,         \* history: what evaluate() returned, current task
  writeLog,         \* history: the paths written by the current run
  skipLog,          \* history: the positions skipped by the current run
  startFiles,       \* history: files when the current run was called
  prevRun,          \* history: folder, outcome, files of the run before
  sess,             \* two sessions: the state of each and of its run
  disk,             \* two sessions: the file systems they run against
  overlapped,       \* two sessions: a run was called while the other ran
  events            \* two sessions: the exists checks passed and the writes

sessionVars == <<subclasses, task_types, task_categories, version, given_tasks,
                 tasks_cls, tasks>>
runVars == <<output_folder, task_pos, loop, split_pos, task_results>>
fsVars == <<dirs, files>>
histVars == <<outcome, runs, evalLog, returned, writeLog, skipLog, startFiles, prevRun>>
singleVars == <<sessionVars, pc, load_pos, runVars, fsVars, histVars, loadLog>>
multiVars == <<sess, disk, overlapped, events>>
vars == <<singleVars, multiVars>>

(***************************************************************************)
(* select_tasks                                                            *)
(***************************************************************************)
\* filter(filter_task_list, self.tasks_cls)
filter_task_list(x) == in_tasks(description[x].name, given_tasks.val)

filter_task_type(x) == (~task_types.some) \/ (description[x].type \in task_types.val)

filter_task_category(x) ==
  (~task_categories.some) \/ (description[x].category \in task_categories.val)

\* mutant: the version floor taken as a strict bound
filter_version_strict(x) == (~version.some) \/ (description[x].version > version.val)

filter_version(x) == (~version.some) \/ (description[x].version >= version.val)

\* [x for x in self._tasks if isinstance(x, AbsTask)]
RECURSIVE given_instances(_)
given_instances(L) ==
  IF L = <<>> THEN <<>>
  ELSE (IF isinstance_AbsTask(Head(L)) THEN <<Head(L).inst>> ELSE <<>>)
         \o given_instances(Tail(L))

\* mutant: the type, category and version filters applied to the explicit list too
selected_filtering_list(cls) ==
  LET by_filters(c) == SelectSeq(SelectSeq(SelectSeq(c, filter_task_type),
                                           filter_task_category), filter_version)
  IN  IF given_tasks.some
        THEN by_filters(SelectSeq(cls, filter_task_list))
               \o given_instances(given_tasks.val)
        ELSE by_filters(cls)

\* mutant: the explicit list taken in the order of the list
RECURSIVE in_list_order(_, _)
in_list_order(L, cls) ==
  IF L = <<>> THEN <<>>
  ELSE (IF isinstance_AbsTask(Head(L))
          THEN <<Head(L).inst>>
          ELSE SelectSeq(cls, LAMBDA c : description[c].name = Head(L).name))
         \o in_list_order(Tail(L), cls)

selected_in_list_order(cls) ==
  IF given_tasks.some
    THEN in_list_order(given_tasks.val, cls)
    ELSE SelectSeq(SelectSeq(SelectSeq(cls, filter_task_type), filter_task_category),
                   filter_version)

selected(cls) ==
  IF given_tasks.some
    THEN SelectSeq(cls, filter_task_list) \o given_instances(given_tasks.val)
    ELSE SelectSeq(SelectSeq(SelectSeq(cls, filter_task_type), filter_task_category),
                   filter_version)

select_tasks ==
  /\ pc = "new"
  /\ tasks_cls' = subclasses
  /\ tasks' = selected(subclasses)
  /\ pc' = "loading"
  /\ load_pos' = 1
  /\ UNCHANGED <<subclasses, task_types, task_categories, version, given_tasks>>
  /\ UNCHANGED <<runVars, fsVars, histVars, loadLog>>
  /\ UNCHANGED multiVars

(***************************************************************************)
(* load_tasks_data: one step per task.load_data() call, which returns or   *)
(* raises; the error is not caught and ends __init__.                      *)
(***************************************************************************)
load_data ==
  /\ pc = "loading"
  /\ load_pos <= Len(tasks)
  /\ loadLog' = Append(loadLog, tasks[load_pos])
  /\ load_pos' = load_pos + 1
  /\ UNCHANGED <<sessionVars, pc, runVars, fsVars, histVars>>
  /\ UNCHANGED multiVars

load_data_raises ==
  /\ pc = "loading"
  /\ load_pos <= Len(tasks)
  /\ loadLog' = Append(loadLog, tasks[load_pos])
  /\ pc' = "ctor_raised"
  /\ UNCHANGED <<sessionVars, load_pos, runVars, fsVars, histVars>>
  /\ UNCHANGED multiVars

\* the loop of load_tasks_data is over: __init__ returns the session
init_returns ==
  /\ pc = "loading"
  /\ load_pos > Len(tasks)
  /\ pc' = "ready"
  /\ UNCHANGED <<sessionVars, load_pos, runVars, fsVars, histVars, loadLog>>
  /\ UNCHANGED multiVars

(***************************************************************************)
(* The file system and the result file.                                    *)
(***************************************************************************)
Folders == {"results"}

\* os.path.join(output_folder, f"{task.description['name']}{task.save_suffix}.json")
save_path(folder, x) == folder \o "/" \o description[x].name \o save_suffix[x] \o ".json"

\* mutant: the exists check never finds the file
exists_never(path) == FALSE

\* mutant: the folder is listed once, when run is called
exists_only_at_start(path) == path \in DOMAIN startFiles

\* os.path.exists(save_path)
exists(path) == path \in DOMAIN files

\* the split names in the order sort_keys=True puts them
SortedSplits == <<"test", "validation">>

\* json.dump(task_results, f_out, indent=2, sort_keys=True): the top-level
\* members of the object written, one per key of the dict, in key order
json_dump(d) ==
  LET keys == SelectSeq(SortedSplits, LAMBDA k : k \in DOMAIN d)
  IN  [n \in 1..Len(keys) |-> [key |-> keys[n], value |-> d[keys[n]]]]

\* a result file that is in the folder before the session's first run
OldContent == <<[key |-> "test", value |-> 0]>>

\* mutant: a key that is in the dict keeps its first value
dict_set_keep_first(d, k, v) ==
  [s \in DOMAIN d \cup {k} |-> IF s \in DOMAIN d THEN d[s] ELSE v]

\* task_results[split] = results
dict_set(d, k, v) == [s \in DOMAIN d \cup {k} |-> IF s = k THEN v ELSE d[s]]

EmptyDict == [s \in {} |-> 0]

Scores == 1..MaxScore

(***************************************************************************)
(* run                                                                     *)
(***************************************************************************)
\* run(model, verbosity, output_folder): up to the task loop
run_called(folder) ==
  /\ pc = "ready"
  /\ runs < MaxRuns
  /\ pc' = "running"
  /\ output_folder' = folder
  /\ dirs' = IF folder.some THEN dirs \cup {folder.val} ELSE dirs
  /\ task_pos' = 1
  /\ loop' = "head"
  /\ split_pos' = 1
  /\ task_results' = EmptyDict
  /\ runs' = runs + 1
  /\ evalLog' = <<>>
  /\ returned' = <<>>
  /\ writeLog' = <<>>
  /\ skipLog' = <<>>
  /\ startFiles' = files
  /\ prevRun' = [ran |-> runs > 0, folder |-> output_folder, outcome |-> outcome,
                 files |-> files, evals |-> evalLog]
  /\ UNCHANGED <<sessionVars, load_pos, files, outcome, loadLog>>
  /\ UNCHANGED multiVars

\* mutant: a skipped task is removed from self.tasks
skip_task_removing ==
  /\ pc = "running" /\ loop = "head"
  /\ task_pos <= Len(tasks)
  /\ output_folder.some
  /\ exists(save_path(output_folder.val, tasks[task_pos]))
  /\ skipLog' = Append(skipLog, task_pos)
  /\ tasks' = [n \in 1..(Len(tasks) - 1) |->
                 IF n < task_pos THEN tasks[n] ELSE tasks[n + 1]]
  /\ UNCHANGED <<subclasses, task_types, task_categories, version, given_tasks,
                 tasks_cls, pc, load_pos, runVars, fsVars, outcome, runs, evalLog,
                 returned, writeLog, startFiles, prevRun, loadLog>>
  /\ UNCHANGED multiVars

\* mutant: break instead of continue
skip_task_breaks ==
  /\ pc = "running" /\ loop = "head"
  /\ task_pos <= Len(tasks)
  /\ output_folder.some
  /\ exists(save_path(output_folder.val, tasks[task_pos]))
  /\ skipLog' = Append(skipLog, task_pos)
  /\ task_pos' = Len(tasks) + 1
  /\ UNCHANGED <<sessionVars, pc, load_pos, output_folder, loop, split_pos,
                 task_results, fsVars, outcome, runs, evalLog, returned,
                 writeLog, startFiles, prevRun, loadLog>>
  /\ UNCHANGED multiVars

\* the result file of the task exists: continue with the next task
skip_task ==
  /\ pc = "running" /\ loop = "head"
  /\ task_pos <= Len(tasks)
  /\ output_folder.some
  /\ exists(save_path(output_folder.val, tasks[task_pos]))
  /\ skipLog' = Append(skipLog, task_pos)
  /\ task_pos' = task_pos + 1
  /\ UNCHANGED <<sessionVars, pc, load_pos, output_folder, loop, split_pos,
                 task_results, fsVars, outcome, runs, evalLog, returned,
                 writeLog, startFiles, prevRun, loadLog>>
  /\ UNCHANGED multiVars

\* no folder, or no result file: task_results = {} and the split loop starts
begin_task ==
  /\ pc = "running" /\ loop = "head"
  /\ task_pos <= Len(tasks)
  /\ ~(output_folder.some /\ exists(save_path(output_folder.val, tasks[task_pos])))
  /\ task_results' = EmptyDict
  /\ split_pos' = 1
  /\ loop' = "splits"
  /\ returned' = <<>>
  /\ UNCHANGED <<sessionVars, pc, load_pos, output_folder, task_pos, fsVars,
                 outcome, runs, evalLog, writeLog, skipLog, startFiles, prevRun,
                 loadLog>>
  /\ UNCHANGED multiVars

\* mutant: the dump is inside the split loop
evaluate_writing(score) ==
  /\ pc = "running" /\ loop = "splits"
  /\ split_pos <= Len(description[tasks[task_pos]].eval_splits)
  /\ LET split == description[tasks[task_pos]].eval_splits[split_pos]
     IN  /\ evalLog' = Append(evalLog, [pos |-> task_pos, task |-> tasks[task_pos],
                                        split |-> split, raised |-> FALSE])
         /\ returned' = Append(returned, [split |-> split, score |-> score])
         /\ task_results' = dict_set(task_results, split, score)
  /\ IF output_folder.some
       THEN LET path == save_path(output_folder.val, tasks[task_pos])
            IN  /\ files' = (path :> json_dump(task_results')) @@ files
                /\ writeLog' = Append(writeLog, [pos |-> task_pos, path |-> path])
       ELSE UNCHANGED <<files, writeLog>>
  /\ split_pos' = split_pos + 1
  /\ UNCHANGED <<sessionVars, pc, load_pos, output_folder, task_pos, loop, dirs,
                 outcome, runs, skipLog, startFiles, prevRun, loadLog>>
  /\ UNCHANGED multiVars

\* results = task.evaluate(model, split); task_results[split] = results
evaluate(score) ==
  /\ pc = "running" /\ loop = "splits"
  /\ split_pos <= Len(description[tasks[task_pos]].eval_splits)
  /\ LET split == description[tasks[task_pos]].eval_splits[split_pos]
     IN  /\ evalLog' = Append(evalLog, [pos |-> task_pos, task |-> tasks[task_pos],
                                        split |-> split, raised |-> FALSE])
         /\ returned' = Append(returned, [split |-> split, score |-> score])
         /\ task_results' = dict_set(task_results, split, score)
  /\ split_pos' = split_pos + 1
  /\ UNCHANGED <<sessionVars, pc, load_pos, output_folder, task_pos, loop, fsVars,
                 outcome, runs, writeLog, skipLog, startFiles, prevRun, loadLog>>
  /\ UNCHANGED multiVars

\* mutant: the results collected so far are saved when evaluate raises
evaluate_raises_saving ==
  /\ pc = "running" /\ loop = "splits"
  /\ split_pos <= Len(description[tasks[task_pos]].eval_splits)
  /\ LET split == description[tasks[task_pos]].eval_splits[split_pos]
     IN  evalLog' = Append(evalLog, [pos |-> task_pos, task |-> tasks[task_pos],
                                     split |-> split, raised |-> TRUE])
  /\ pc' = "ready"
  /\ outcome' = "raised"
  /\ IF output_folder.some
       THEN files' = (save_path(output_folder.val, tasks[task_pos])
                        :> json_dump(task_results)) @@ files
       ELSE UNCHANGED files
  /\ UNCHANGED <<sessionVars, load_pos, runVars, dirs, runs, returned, writeLog,
                 skipLog, startFiles, prevRun, loadLog>>
  /\ UNCHANGED multiVars

\* task.evaluate raises: nothing catches it, run() ends with the error
evaluate_raises ==
  /\ pc = "running" /\ loop = "splits"
  /\ split_pos <= Len(description[tasks[task_pos]].eval_splits)
  /\ LET split == description[tasks[task_pos]].eval_splits[split_pos]
     IN  evalLog' = Append(evalLog, [pos |-> task_pos, task |-> tasks[task_pos],
                                     split |-> split, raised |-> TRUE])
  /\ pc' = "ready"
  /\ outcome' = "raised"
  /\ UNCHANGED <<sessionVars, load_pos, runVars, fsVars, runs, returned, writeLog,
                 skipLog, startFiles, prevRun, loadLog>>
  /\ UNCHANGED multiVars

\* mutant: the dump is left out
write_results_no_write ==
  /\ pc = "running" /\ loop = "splits"
  /\ split_pos > Len(description[tasks[task_pos]].eval_splits)
  /\ task_pos' = task_pos + 1
  /\ loop' = "head"
  /\ UNCHANGED <<sessionVars, pc, load_pos, output_folder, split_pos, task_results,
                 fsVars, outcome, runs, evalLog, returned, writeLog, skipLog,
                 startFiles, prevRun, loadLog>>
  /\ UNCHANGED multiVars

\* mutant: the file is written whether or not a folder is configured
write_results_always ==
  /\ pc = "running" /\ loop = "splits"
  /\ split_pos > Len(description[tasks[task_pos]].eval_splits)
  /\ LET path == save_path(output_folder.val, tasks[task_pos])
     IN  /\ files' = (path :> json_dump(task_results)) @@ files
         /\ writeLog' = Append(writeLog, [pos |-> task_pos, path |-> path])
  /\ task_pos' = task_pos + 1
  /\ loop' = "head"
  /\ UNCHANGED <<sessionVars, pc, load_pos, output_folder, split_pos, task_results,
                 dirs, outcome, runs, evalLog, returned, skipLog, startFiles,
                 prevRun, loadLog>>
  /\ UNCHANGED multiVars

\* after the split loop: json.dump to save_path when a folder is configured
write_results ==
  /\ pc = "running" /\ loop = "splits"
  /\ split_pos > Len(description[tasks[task_pos]].eval_splits)
  /\ IF output_folder.some
       THEN LET path == save_path(output_folder.val, tasks[task_pos])
            IN  /\ files' = (path :> json_dump(task_results)) @@ files
                /\ writeLog' = Append(writeLog, [pos |-> task_pos, path |-> path])
       ELSE UNCHANGED <<files, writeLog>>
  /\ task_pos' = task_pos + 1
  /\ loop' = "head"
  /\ UNCHANGED <<sessionVars, pc, load_pos, output_folder, split_pos, task_results,
                 dirs, outcome, runs, evalLog, returned, skipLog, startFiles,
                 prevRun, loadLog>>
  /\ UNCHANGED multiVars

\* the task loop is over: run() returns
run_returns ==
  /\ pc = "running" /\ loop = "head"
  /\ task_pos > Len(tasks)
  /\ pc' = "ready"
  /\ outcome' = "returned"
  /\ UNCHANGED <<sessionVars, load_pos, runVars, fsVars, runs, evalLog, returned,
                 writeLog, skipLog, startFiles, prevRun, loadLog>>
  /\ UNCHANGED multiVars

(***************************************************************************)
(* The sessions checked.                                                   *)
(***************************************************************************)
NoFilter == None({})
NoVersion == None(0)
NoList == None(<<>>)
NoFolder == None("")

RECURSIVE SeqsUpTo(_, _)
SeqsUpTo(S, n) ==
  IF n = 0 THEN {<<>>}
  ELSE LET shorter == SeqsUpTo(S, n - 1)
       IN  shorter \cup {Append(s, e) : s \in shorter, e \in S}

InitRest ==
  /\ tasks_cls = <<>>
  /\ tasks = <<>>
  /\ pc = "new"
  /\ load_pos = 1
  /\ output_folder = NoFolder
  /\ task_pos = 1
  /\ loop = "head"
  /\ split_pos = 1
  /\ task_results = EmptyDict
  /\ outcome = "none"
  /\ runs = 0
  /\ loadLog = <<>>
  /\ evalLog = <<>>
  /\ returned = <<>>
  /\ writeLog = <<>>
  /\ skipLog = <<>>
  /\ startFiles = files
  /\ prevRun = [ran |-> FALSE, folder |-> NoFolder, outcome |-> "none",
                files |-> files, evals |-> <<>>]

\* no second session
InitOneSession ==
  /\ sess = <<>>
  /\ disk = <<>>
  /\ overlapped = FALSE
  /\ events = <<>>

\* the elements of the explicit lists of the sessions that are run
RunListElements == {ByName("A"), ByInstance(4), ByInstance(5)}

\* the explicit lists of the sessions that are run: every list up to
\* MaxRunListLen, and one list of three that holds an instance twice
RunLists ==
  SeqsUpTo(RunListElements, MaxRunListLen)
    \cup {<<ByInstance(4), ByInstance(4), ByInstance(5)>>}

\* result files that may be in the folder before the first run
OldPaths == {save_path("results", 1), save_path("results", 3)}

Init ==
  /\ subclasses = <<1, 2, 3>>
  /\ \/ /\ given_tasks = NoList
        /\ task_types \in {NoFilter, Some({"X"})}
        /\ task_categories = NoFilter
        /\ version \in {NoVersion, Some(2)}
     \/ /\ given_tasks \in {Some(L) : L \in RunLists}
        /\ task_types = NoFilter
        /\ task_categories = NoFilter
        /\ version = NoVersion
  /\ \E old \in SUBSET OldPaths :
       /\ files = [p \in old |-> OldContent]
       /\ dirs = IF old = {} THEN {} ELSE {"results"}
  /\ InitRest
  /\ InitOneSession

Next ==
  \/ select_tasks
  \/ load_data
  \/ load_data_raises
  \/ init_returns
  \/ \E folder \in {NoFolder} \cup {Some(f) : f \in Folders} : run_called(folder)
  \/ skip_task
  \/ begin_task
  \/ \E score \in Scores : evaluate(score)
  \/ evaluate_raises
  \/ write_results
  \/ run_returns

Spec == Init /\ [][Next]_vars

(***************************************************************************)
(* Task selection alone, over every registry, every filter and every       *)
(* explicit list up to MaxListLen.                                         *)
(***************************************************************************)
\* the discovery orders: the sequences of distinct registered classes
Registries ==
  {r \in SeqsUpTo(Classes, Cardinality(Classes)) :
     \A i, j \in 1..Len(r) : i # j => r[i] # r[j]}

InitSelect ==
  /\ subclasses \in Registries
  /\ task_types \in {NoFilter} \cup {Some(S) : S \in SUBSET TaskTypes}
  /\ task_categories \in {NoFilter} \cup {Some(S) : S \in SUBSET TaskCategories}
  /\ version \in {NoVersion} \cup {Some(v) : v \in Versions}
  /\ given_tasks \in {NoList} \cup {Some(L) : L \in SeqsUpTo(ListElements, MaxListLen)}
  /\ files = [p \in {} |-> OldContent]
  /\ dirs = {}
  /\ InitRest
  /\ InitOneSession

NextSelect == select_tasks

SpecSelect == InitSelect /\ [][NextSelect]_vars

(***************************************************************************)
(* Properties of task selection.                                           *)
(***************************************************************************)
Range(s) == {s[k] : k \in 1..Len(s)}

\* the names (str elements) of an explicit list
NamesOf(L) == {L[k].name : k \in {m \in 1..Len(L) : L[m].kind = "str"}}

\* the position of x in a sequence without repetition
PosIn(s, x) == CHOOSE k \in 1..Len(s) : s[k] = x

\* the positions of the Task Instances in an explicit list
InstancePositions(L) == {k \in 1..Len(L) : L[k].kind = "AbsTask"}

\* the position in L of its n-th Task Instance
NthInstance(L, n) ==
  CHOOSE k \in InstancePositions(L) :
    Cardinality({m \in InstancePositions(L) : m < k}) = n - 1

Selected == pc # "new"

\* C1: with an explicit list of names, all of them names of discovered tasks,
\* the selected tasks are exactly the discovered tasks whose name is in the
\* list, each once, whatever task_types, task_categories and version are.
C1_ExplicitNamesOverrideFilters ==
  (/\ Selected
   /\ given_tasks.some
   /\ InstancePositions(given_tasks.val) = {}
   /\ NamesOf(given_tasks.val) \subseteq {description[c].name : c \in Range(tasks_cls)})
  => /\ Range(tasks) = {c \in Range(tasks_cls) :
                          description[c].name \in NamesOf(given_tasks.val)}
     /\ Len(tasks) = Cardinality(Range(tasks))

\* C1 witness: two tasks are selected by name although all three filters are
\* set and reject them.
C1_Witness ==
  /\ Selected
  /\ given_tasks = Some(<<ByName("C"), ByName("A")>>)
  /\ task_types = Some({"Y"})
  /\ task_categories = Some({})
  /\ version = Some(3)
  /\ Range(tasks) = {1, 3}

\* C2: without an explicit list a discovered task is selected iff it passes
\* the type, the category and the version filter (a filter that is None
\* passes everything, the version filter is version >= requested); the
\* selected list keeps the discovery order, and without filters it is the
\* whole discovered list.
C2_PredicateSelection ==
  (Selected /\ ~given_tasks.some)
  => /\ Range(tasks) \subseteq Range(tasks_cls)
     /\ \A c \in Range(tasks_cls) :
          c \in Range(tasks) <=>
            /\ (task_types = NoFilter \/ description[c].type \in task_types.val)
            /\ (task_categories = NoFilter
                  \/ description[c].category \in task_categories.val)
            /\ (version = NoVersion \/ ~(description[c].version < version.val))
     /\ \A i, j \in 1..Len(tasks) :
          i < j => PosIn(tasks_cls, tasks[i]) < PosIn(tasks_cls, tasks[j])
     /\ (task_types = NoFilter /\ task_categories = NoFilter /\ version = NoVersion)
          => tasks = tasks_cls

\* C2 witness: version 2 is requested; the tasks of version 2 are selected,
\* in discovery order, and the task of version 1 is not.
C2_Witness ==
  /\ Selected
  /\ ~given_tasks.some
  /\ version = Some(2)
  /\ task_types = NoFilter
  /\ task_categories = Some({"s2s", "p2p"})
  /\ tasks_cls = <<3, 1, 2>>
  /\ tasks = <<3, 2>>

\* C5: no two entries of the selected list are the same Task Instance or have
\* the same task name.
C5_SelectedAtMostOnce ==
  Selected =>
    \A i, j \in 1..Len(tasks) :
      i # j => /\ tasks[i] # tasks[j]
               /\ description[tasks[i]].name # description[tasks[j]].name

\* C9: with an explicit list the selected list is the discovered tasks
\* matched by name, in discovery order, followed by the Task Instances of
\* the list, in the order of the list.
C9_ExplicitListOrder ==
  (Selected /\ given_tasks.some)
  => LET L == given_tasks.val
         matched == {c \in Range(tasks_cls) : description[c].name \in NamesOf(L)}
         n == Cardinality(matched)
         m == Cardinality(InstancePositions(L))
     IN  /\ Len(tasks) = n + m
         /\ {tasks[k] : k \in 1..n} = matched
         /\ \A i, j \in 1..n :
              i < j => PosIn(tasks_cls, tasks[i]) < PosIn(tasks_cls, tasks[j])
         /\ \A k \in 1..m : tasks[n + k] = L[NthInstance(L, k)].inst

\* C9 witness: the list names C before A and holds an instance between them;
\* A is discovered before C, and the instance comes last.
C9_Witness ==
  /\ Selected
  /\ given_tasks = Some(<<ByName("C"), ByInstance(5), ByName("A")>>)
  /\ tasks_cls = <<1, 2, 3>>
  /\ tasks = <<1, 3, 5>>

(***************************************************************************)
(* Properties of run.  evalLog, writeLog, skipLog and startFiles describe  *)
(* the run called last; prevRun describes the run called before it.        *)
(***************************************************************************)
\* the evaluate() calls made for the task at position k
EvalsOf(k) == SelectSeq(evalLog, LAMBDA e : e.pos = k)

\* the task at position k was evaluated on each declared split, in declared
\* order, and no call raised
FullyEvaluated(k) ==
  /\ Len(EvalsOf(k)) = Len(description[tasks[k]].eval_splits)
  /\ \A n \in 1..Len(EvalsOf(k)) :
       /\ EvalsOf(k)[n].split = description[tasks[k]].eval_splits[n]
       /\ EvalsOf(k)[n].task = tasks[k]
       /\ ~EvalsOf(k)[n].raised

WritesAt(k) == {n \in 1..Len(writeLog) : writeLog[n].pos = k}
WritesTo(path) == {n \in 1..Len(writeLog) : writeLog[n].path = path}

RunFinished == pc = "ready" /\ runs > 0
RunReturned == RunFinished /\ outcome = "returned"
RunRaised == RunFinished /\ outcome = "raised"

\* the run called last follows a run that returned, with the same folder
AfterCompletedRunSameFolder ==
  /\ prevRun.ran
  /\ prevRun.outcome = "returned"
  /\ prevRun.folder.some
  /\ output_folder = prevRun.folder

\* C3: a run that follows a run that returned without error, with the same
\* (not None) output folder, calls evaluate zero times, writes nothing, leaves
\* the files as the first run left them and, when it returns, has skipped
\* every selected task.
C3_RunIdempotent ==
  AfterCompletedRunSameFolder
  => /\ evalLog = <<>>
     /\ writeLog = <<>>
     /\ files = prevRun.files
     /\ pc = "running" => skipLog = [k \in 1..(task_pos - 1) |-> k]
     /\ RunFinished => (outcome = "returned" /\ skipLog = [k \in 1..Len(tasks) |-> k])

\* C3 witness: the first run evaluated tasks and wrote files, the second run
\* with the same folder has returned and skipped all three tasks.
C3_Witness ==
  /\ AfterCompletedRunSameFolder
  /\ RunReturned
  /\ Len(tasks) = 3
  /\ Len(prevRun.evals) >= 3
  /\ skipLog = <<1, 2, 3>>

\* the result file of the task at position k was there when the loop reached k
ExistedWhenReached(k) ==
  LET path == save_path(output_folder.val, tasks[k])
  IN  \/ path \in DOMAIN startFiles
      \/ \E n \in WritesTo(path) : writeLog[n].pos < k

\* C4: in a run with an output folder, a task whose result file exists when
\* the loop reaches it is skipped: no evaluate call is made for it, its file
\* is not written and keeps its content; every other task the loop has passed
\* was evaluated on all its splits and its file written.
C4_ExistingFileSkipped ==
  (runs > 0 /\ output_folder.some)
  => \A k \in 1..(task_pos - 1) :
       LET path == save_path(output_folder.val, tasks[k])
       IN  IF ExistedWhenReached(k)
             THEN /\ \E n \in 1..Len(skipLog) : skipLog[n] = k
                  /\ EvalsOf(k) = <<>>
                  /\ WritesAt(k) = {}
                  /\ \A n \in WritesTo(path) : writeLog[n].pos < k
                  /\ path \in DOMAIN files
                  /\ path \in DOMAIN startFiles => files[path] = startFiles[path]
             ELSE /\ \A n \in 1..Len(skipLog) : skipLog[n] # k
                  /\ FullyEvaluated(k)
                  /\ Cardinality(WritesAt(k)) = 1
                  /\ path \in DOMAIN files

\* C4 witness: A.json is in the folder, A, B and C are selected; the run has
\* returned, A was skipped and its file is as it was, B and C were evaluated
\* and written.
C4_Witness ==
  /\ RunReturned
  /\ runs = 1
  /\ output_folder = Some("results")
  /\ tasks = <<1, 2, 3>>
  /\ DOMAIN startFiles = {"results/A.json"}
  /\ skipLog = <<1>>
  /\ files["results/A.json"] = OldContent
  /\ Len(evalLog) = 3
  /\ DOMAIN files = {"results/A.json", "results/B.json", "results/C.json"}

\* C6: once the session is constructed, load_data has been called exactly
\* once on every selected task, in selection order, and on no other task; no
\* evaluate call and no run happens before construction is over.
C6_LoadedExactlyOnce ==
  /\ pc \in {"ready", "running"}
       => /\ \A i \in Instances :
               Cardinality({n \in 1..Len(loadLog) : loadLog[n] = i})
                 = (IF i \in Range(tasks) THEN 1 ELSE 0)
          /\ \A m, n \in 1..Len(loadLog) :
               m < n => \E a, b \in 1..Len(tasks) :
                          a < b /\ tasks[a] = loadLog[m] /\ tasks[b] = loadLog[n]
  /\ pc \in {"new", "loading", "ctor_raised"} => (runs = 0 /\ evalLog = <<>>)

\* C7: when evaluate has raised, the run is over with the raising call as its
\* last evaluate call and nothing written after it; the tasks the run
\* completed before have their file, written once; the files that were there
\* before the run are unchanged; the task in progress has no file.
C7_EvaluateErrorAborts ==
  RunRaised
  => /\ evalLog # <<>>
     /\ \A n \in 1..Len(evalLog) : evalLog[n].raised <=> n = Len(evalLog)
     /\ evalLog[Len(evalLog)].pos = task_pos
     /\ \A n \in 1..Len(writeLog) : writeLog[n].pos < task_pos
     /\ \A p \in DOMAIN startFiles :
          p \in DOMAIN files /\ files[p] = startFiles[p] /\ WritesTo(p) = {}
     /\ DOMAIN files = DOMAIN startFiles \cup {writeLog[n].path : n \in 1..Len(writeLog)}
     /\ output_folder.some
          => /\ save_path(output_folder.val, tasks[task_pos]) \notin DOMAIN files
             /\ \A k \in 1..(task_pos - 1) :
                  FullyEvaluated(k)
                    => /\ Cardinality(WritesAt(k)) = 1
                       /\ Cardinality(WritesTo(save_path(output_folder.val, tasks[k]))) = 1
                       /\ save_path(output_folder.val, tasks[k]) \in DOMAIN files
     /\ ~output_folder.some => files = startFiles

\* C7 witness: A, B and C are selected and C.json was there; A was evaluated
\* and written, the first split of B was evaluated and evaluate raised on its
\* second split: A.json is written, C.json is unchanged, there is no B.json.
C7_Witness ==
  /\ RunRaised
  /\ output_folder = Some("results")
  /\ tasks = <<1, 2, 3>>
  /\ DOMAIN startFiles = {"results/C.json"}
  /\ task_pos = 2
  /\ Len(returned) = 1
  /\ Len(evalLog) = 3
  /\ DOMAIN files = {"results/A.json", "results/C.json"}
  /\ files["results/C.json"] = OldContent

\* C8: the result file a run has just written has one top-level member per
\* split name of the task's eval_splits and no other; the value of each is
\* what the (last) evaluate call for that split returned.
C8_ResultFileKeys ==
  (pc = "running" /\ loop = "head" /\ writeLog # <<>>)
  => LET w == writeLog[Len(writeLog)]
         content == files[w.path]
         splits == description[tasks[w.pos]].eval_splits
     IN  /\ {content[n].key : n \in 1..Len(content)} = Range(splits)
         /\ Len(content) = Cardinality(Range(splits))
         /\ Len(returned) = Len(splits)
         /\ \A n \in 1..Len(returned) : returned[n].split = splits[n]
         /\ \A n \in 1..Len(content) :
              LET last == CHOOSE m \in 1..Len(returned) :
                            /\ returned[m].split = content[n].key
                            /\ \A q \in (m + 1)..Len(returned) :
                                 returned[q].split # content[n].key
              IN  content[n].value = returned[last].score

\* C8 witness: B declares validation and test; evaluate returned 2 for
\* validation and 1 for test, and B.json holds exactly test: 1, validation: 2.
C8_Witness ==
  /\ pc = "running" /\ loop = "head"
  /\ writeLog # <<>>
  /\ tasks[writeLog[Len(writeLog)].pos] = 2
  /\ returned = <<[split |-> "validation", score |-> 2], [split |-> "test", score |-> 1]>>
  /\ files["results/B.json"] = <<[key |-> "test", value |-> 1],
                                  [key |-> "validation", value |-> 2]>>

\* the evaluate() calls of a run that evaluates the tasks at positions k..
RECURSIVE AllSplitsFrom(_)
AllSplitsFrom(k) ==
  IF k > Len(tasks) THEN <<>>
  ELSE [n \in 1..Len(description[tasks[k]].eval_splits) |->
          [pos |-> k, task |-> tasks[k],
           split |-> description[tasks[k]].eval_splits[n], raised |-> FALSE]]
         \o AllSplitsFrom(k + 1)

\* C10: in a run with output_folder None nothing is written, no file appears,
\* no task is skipped, and every task the loop has passed was evaluated on
\* every declared split; a run that returns has evaluated every selected
\* task on every split, whatever files exist.
C10_NoFolderNoFiles ==
  (runs > 0 /\ ~output_folder.some)
  => /\ files = startFiles
     /\ writeLog = <<>>
     /\ skipLog = <<>>
     /\ \A k \in 1..(task_pos - 1) : FullyEvaluated(k)
     /\ RunReturned => evalLog = AllSplitsFrom(1)

\* C10 witness: a first run with a folder wrote A.json, B.json and C.json; a
\* second run with output_folder None has returned and made all four evaluate
\* calls again.
C10_Witness ==
  /\ RunReturned
  /\ runs = 2
  /\ ~output_folder.some
  /\ prevRun.folder.some
  /\ tasks = <<1, 2, 3>>
  /\ DOMAIN files = {"results/A.json", "results/B.json", "results/C.json"}
  /\ Len(evalLog) = 4

\* C11: when load_data has raised on the k-th selected task, k load_data
\* calls were made and none after it, every task before the k-th has had
\* load_data called on it (and returning) exactly once, and no run, no
\* evaluate call and no file write has happened.
C11_LoadErrorAborts ==
  pc = "ctor_raised"
  => /\ Len(loadLog) = load_pos
     /\ \A n \in 1..Len(loadLog) : loadLog[n] = tasks[n]
     /\ \A i \in {tasks[j] : j \in 1..(load_pos - 1)} :
          Cardinality({n \in 1..(load_pos - 1) : loadLog[n] = i}) = 1
     /\ runs = 0 /\ evalLog = <<>> /\ writeLog = <<>> /\ files = startFiles

\* C12: in a run the evaluate calls go through the tasks in selection order
\* and through the splits of a task in declared order; when evaluate is
\* called for a task, every earlier task that was not skipped has been
\* evaluated on all its splits and (with an output folder) written; a file
\* is written only for a task evaluated on all its splits.
C12_SequentialOrder ==
  runs > 0
  => /\ \A m, n \in 1..Len(evalLog) : m < n => evalLog[m].pos <= evalLog[n].pos
     /\ \A k \in 1..Len(tasks) :
          /\ Len(EvalsOf(k)) <= Len(description[tasks[k]].eval_splits)
          /\ \A n \in 1..Len(EvalsOf(k)) :
               EvalsOf(k)[n].split = description[tasks[k]].eval_splits[n]
     /\ \A n \in 1..Len(evalLog) :
          \A j \in 1..(evalLog[n].pos - 1) :
            \/ \E q \in 1..Len(skipLog) : skipLog[q] = j
            \/ /\ FullyEvaluated(j)
               /\ output_folder.some => WritesAt(j) # {}
     /\ \A n \in 1..Len(writeLog) : FullyEvaluated(writeLog[n].pos)
     /\ \A m, n \in 1..Len(writeLog) : m < n => writeLog[m].pos < writeLog[n].pos

\* C12 witness: A and B were evaluated and written, the only split of C has
\* just been evaluated and C is not written yet.
C12_Witness ==
  /\ pc = "running" /\ loop = "splits"
  /\ output_folder = Some("results")
  /\ tasks = <<1, 2, 3>>
  /\ task_pos = 3
  /\ Len(evalLog) = 4
  /\ Len(writeLog) = 2
  /\ DOMAIN files = {"results/A.json", "results/B.json"}

\* the run called last follows a run that evaluate aborted, with the same folder
AfterAbortedRunSameFolder ==
  /\ prevRun.ran
  /\ prevRun.outcome = "raised"
  /\ prevRun.folder.some
  /\ output_folder = prevRun.folder

\* the evaluate() calls the run before made for the task at position k
PrevEvalsOf(k) == SelectSeq(prevRun.evals, LAMBDA e : e.pos = k)

\* the run before evaluated the task at position k on all its splits
PrevCompleted(k) ==
  /\ Len(PrevEvalsOf(k)) = Len(description[tasks[k]].eval_splits)
  /\ \A n \in 1..Len(PrevEvalsOf(k)) : ~PrevEvalsOf(k)[n].raised

\* the position of the task on which the run before was aborted
FailedPos == prevRun.evals[Len(prevRun.evals)].pos

\* C13: a run that follows an aborted run, with the same folder, makes no
\* evaluate call for a task the aborted run completed, evaluates the task
\* that failed and every task from there on that has no file, and, when it
\* returns, every selected task has its file.
C13_Resumable ==
  AfterAbortedRunSameFolder
  => /\ \A k \in 1..Len(tasks) : PrevCompleted(k) => EvalsOf(k) = <<>>
     /\ FailedPos < task_pos => FullyEvaluated(FailedPos)
     /\ \A k \in FailedPos..(task_pos - 1) :
          ~ExistedWhenReached(k) => (FullyEvaluated(k) /\ WritesAt(k) # {})
     /\ RunReturned
          => \A k \in 1..Len(tasks) :
               save_path(output_folder.val, tasks[k]) \in DOMAIN files

\* C13 witness: the first run wrote A.json and was aborted on the second split
\* of B; the second run skipped A, evaluated B and C and returned with the
\* three files.
C13_Witness ==
  /\ AfterAbortedRunSameFolder
  /\ RunReturned
  /\ tasks = <<1, 2, 3>>
  /\ Len(prevRun.evals) = 3
  /\ FailedPos = 2
  /\ DOMAIN prevRun.files = {"results/A.json"}
  /\ skipLog = <<1>>
  /\ Len(evalLog) = 3
  /\ DOMAIN files = {"results/A.json", "results/B.json", "results/C.json"}

\* C15: once the session is constructed, no step of any run changes the
\* selected list, the discovered list or the stored selection parameters.
C15_SelectionFixed ==
  [][(pc = "ready" \/ pc = "running")
       => (UNCHANGED <<tasks, tasks_cls, task_types, task_categories, version,
                       given_tasks>>)]_vars

\* C15 witness: a first run was aborted, a second run skipped a task,
\* evaluated the others and returned; the selected list is as selected.
C15_Witness ==
  /\ RunReturned
  /\ runs = 2
  /\ prevRun.outcome = "raised"
  /\ skipLog # <<>>
  /\ evalLog # <<>>
  /\ version = Some(2)
  /\ tasks = <<2, 3>>

\* C17: in a run with an output folder no path is written twice and no file
\* that was there is written; of two entries of the selected list with the
\* same path the later one is skipped, never evaluated and never written, and
\* the first entry with that path is evaluated and written when the file was
\* not there.
C17_PathWrittenOnce ==
  (runs > 0 /\ output_folder.some)
  => /\ \A m, n \in 1..Len(writeLog) : writeLog[m].path = writeLog[n].path => m = n
     /\ \A p \in DOMAIN startFiles :
          WritesTo(p) = {} /\ p \in DOMAIN files /\ files[p] = startFiles[p]
     /\ \A i, j \in 1..Len(tasks) :
          (/\ i < j
           /\ save_path(output_folder.val, tasks[i]) = save_path(output_folder.val, tasks[j]))
          => /\ EvalsOf(j) = <<>>
             /\ WritesAt(j) = {}
             /\ j < task_pos => \E q \in 1..Len(skipLog) : skipLog[q] = j
             /\ (/\ i < task_pos
                 /\ save_path(output_folder.val, tasks[i]) \notin DOMAIN startFiles
                 /\ \A h \in 1..(i - 1) :
                      save_path(output_folder.val, tasks[h])
                        # save_path(output_folder.val, tasks[i]))
                => (FullyEvaluated(i) /\ Cardinality(WritesAt(i)) = 1)

\* C17 witness: the list is the name A and a second instance named A; both
\* resolve to results/A.json; the discovered A was evaluated and written, the
\* instance was skipped.
C17_Witness ==
  /\ RunReturned
  /\ output_folder = Some("results")
  /\ tasks = <<1, 4>>
  /\ startFiles = [p \in {} |-> OldContent]
  /\ Len(evalLog) = 1
  /\ evalLog[1].pos = 1
  /\ skipLog = <<2>>
  /\ Len(writeLog) = 1
  /\ DOMAIN files = {"results/A.json"}

(***************************************************************************)
(* run as a function of the state of one session and of the file system    *)
(* it runs against, for the specifications with two sessions.  A session   *)
(* is a record: the selected tasks, the position of run in its loops, and  *)
(* what the run has done (evals, skips, writes, the Scores lines printed,  *)
(* whether the logging of the datasets library was turned down).           *)
(***************************************************************************)
new_session(selection) ==
  [tasks |-> selection, pc |-> "ready", runs |-> 0, outcome |-> "none",
   output_folder |-> NoFolder, verbosity |-> 1, datasets_quiet |-> FALSE,
   task_pos |-> 1, loop |-> "head", split_pos |-> 1, task_results |-> EmptyDict,
   evals |-> <<>>, skips |-> <<>>, writes |-> <<>>, printed |-> 0]

new_disk(old) == [dirs |-> IF old = {} THEN {} ELSE {"results"},
                  files |-> [p \in old |-> OldContent]]

\* run(model, verbosity, output_folder) up to the task loop: the session
run_entry(r, folder, verbosity) ==
  [r EXCEPT !.pc = "running",
            !.runs = @ + 1,
            !.output_folder = folder,
            !.verbosity = verbosity,
            !.datasets_quiet = IF verbosity < 2 THEN TRUE ELSE @,
            !.task_pos = 1,
            !.loop = "head",
            !.split_pos = 1,
            !.task_results = EmptyDict]

\* run(model, verbosity, output_folder) up to the task loop: the mkdir
run_entry_disk(fs, folder) ==
  [fs EXCEPT !.dirs = IF folder.some THEN @ \cup {folder.val} ELSE @]

\* the task the loop of the session is at, and its result file
current_task(r) == r.tasks[r.task_pos]
current_path(r) == save_path(r.output_folder.val, current_task(r))
current_splits(r) == description[current_task(r)].eval_splits

\* the exists check of the session finds the result file of its task
file_found(r, fs) == r.output_folder.some /\ current_path(r) \in DOMAIN fs.files

\* mutant: no exists check
at_head_unchecked(r, fs) ==
  [r EXCEPT !.task_results = EmptyDict, !.split_pos = 1, !.loop = "splits"]

\* the head of the task loop: skip the task, or start its split loop
at_head(r, fs) ==
  IF file_found(r, fs)
    THEN [r EXCEPT !.skips = Append(@, [run |-> r.runs, pos |-> r.task_pos]),
                   !.task_pos = @ + 1]
    ELSE [r EXCEPT !.task_results = EmptyDict, !.split_pos = 1, !.loop = "splits"]

\* mutant: the result is kept only when the scores are printed
split_evaluated_if_verbose(r, score) ==
  [r EXCEPT !.evals = Append(@, [run |-> r.runs, pos |-> r.task_pos,
                                 split |-> current_splits(r)[r.split_pos],
                                 raised |-> FALSE]),
            !.task_results = IF r.verbosity >= 1
                               THEN dict_set(@, current_splits(r)[r.split_pos], score)
                               ELSE @,
            !.printed = IF r.verbosity >= 1 THEN @ + 1 ELSE @,
            !.split_pos = @ + 1]

\* evaluate returns: the result is stored, and printed when verbosity >= 1
split_evaluated(r, score) ==
  [r EXCEPT !.evals = Append(@, [run |-> r.runs, pos |-> r.task_pos,
                                 split |-> current_splits(r)[r.split_pos],
                                 raised |-> FALSE]),
            !.task_results = dict_set(@, current_splits(r)[r.split_pos], score),
            !.printed = IF r.verbosity >= 1 THEN @ + 1 ELSE @,
            !.split_pos = @ + 1]

\* evaluate raises: run ends with the error
split_raised(r) ==
  [r EXCEPT !.evals = Append(@, [run |-> r.runs, pos |-> r.task_pos,
                                 split |-> current_splits(r)[r.split_pos],
                                 raised |-> TRUE]),
            !.pc = "ready",
            !.outcome = "raised"]

\* after the split loop: the session
after_splits(r) ==
  [r EXCEPT !.writes = IF r.output_folder.some
                         THEN Append(@, [run |-> r.runs, pos |-> r.task_pos,
                                         path |-> current_path(r)])
                         ELSE @,
            !.task_pos = @ + 1,
            !.loop = "head"]

\* after the split loop: the dump
after_splits_disk(r, fs) ==
  IF r.output_folder.some
    THEN [fs EXCEPT !.files = (current_path(r) :> json_dump(r.task_results)) @@ @]
    ELSE fs

\* what evaluate does when it is called next: it returns a score or raises
EvaluateOutcomes ==
  {[raises |-> FALSE, score |-> score] : score \in Scores}
    \cup {[raises |-> TRUE, score |-> 0]}

\* where the run is
AtHead(r) == r.pc = "running" /\ r.loop = "head" /\ r.task_pos <= Len(r.tasks)
AtEnd(r) == r.pc = "running" /\ r.loop = "head" /\ r.task_pos > Len(r.tasks)
AtSplit(r) ==
  r.pc = "running" /\ r.loop = "splits" /\ r.split_pos <= Len(current_splits(r))
AtDump(r) ==
  r.pc = "running" /\ r.loop = "splits" /\ r.split_pos > Len(current_splits(r))

\* one step of run: the session
run_step(r, fs, out) ==
  CASE AtHead(r) -> at_head(r, fs)
    [] AtEnd(r) -> [r EXCEPT !.pc = "ready", !.outcome = "returned"]
    [] AtSplit(r) -> IF out.raises THEN split_raised(r) ELSE split_evaluated(r, out.score)
    [] AtDump(r) -> after_splits(r)
    [] OTHER -> r

\* one step of run: the file system
run_step_disk(r, fs) == IF AtDump(r) THEN after_splits_disk(r, fs) ELSE fs

(***************************************************************************)
(* Two sessions, each in its own process, on each of which run is called   *)
(* once, against the same folder: their steps interleave.                  *)
(***************************************************************************)
\* the selections of the two sessions: tasks=["A", "B"], version=2, and
\* task_types={"Y"}; B is in all of them
RaceSelections == {<<1, 2>>, <<2, 3>>, <<2>>}

InitOneSessionIdle ==
  /\ subclasses = <<>>
  /\ task_types = NoFilter
  /\ task_categories = NoFilter
  /\ version = NoVersion
  /\ given_tasks = NoList
  /\ files = [p \in {} |-> OldContent]
  /\ dirs = {}
  /\ InitRest

InitRace ==
  /\ InitOneSessionIdle
  /\ sess \in [{1, 2} -> {new_session(ts) : ts \in RaceSelections}]
  /\ disk \in {<<new_disk(old)>> : old \in SUBSET {save_path("results", 1)}}
  /\ overlapped = FALSE
  /\ events = <<>>

race_run_called(p, folder) ==
  /\ sess[p].pc = "ready"
  /\ sess[p].runs = 0
  /\ sess' = [sess EXCEPT ![p] = run_entry(@, folder, 1)]
  /\ disk' = [disk EXCEPT ![1] = run_entry_disk(@, folder)]
  /\ overlapped' = (overlapped \/ \E q \in {1, 2} \ {p} : sess[q].pc = "running")
  /\ UNCHANGED <<events, singleVars>>

race_run_step(p, out) ==
  /\ sess[p].pc = "running"
  /\ sess' = [sess EXCEPT ![p] = run_step(@, disk[1], out)]
  /\ disk' = [disk EXCEPT ![1] = run_step_disk(sess[p], @)]
  /\ events' =
       IF AtHead(sess[p]) /\ sess[p].output_folder.some /\ sess'[p].loop = "splits"
         THEN Append(events, [session |-> p, kind |-> "check",
                              path |-> current_path(sess[p])])
       ELSE IF AtDump(sess[p]) /\ sess[p].output_folder.some
         THEN Append(events, [session |-> p, kind |-> "write",
                              path |-> current_path(sess[p])])
       ELSE events
  /\ UNCHANGED <<overlapped, singleVars>>

NextRace ==
  \/ \E p \in {1, 2}, folder \in {Some(f) : f \in Folders} : race_run_called(p, folder)
  \/ \E p \in {1, 2}, out \in EvaluateOutcomes : race_run_step(p, out)

SpecRace == InitRace /\ [][NextRace]_vars

\* the writes of a path, by either session
WriteEvents(path) ==
  {n \in 1..Len(events) : events[n].kind = "write" /\ events[n].path = path}

\* C14: when the runs of the two sessions do not overlap, no result file is
\* written twice; and every write of a file follows an exists check of the
\* writing session that came before any write of the file, so a file is
\* written twice only when both sessions passed the check before either wrote.
C14_ExistsCheckRace ==
  /\ ~overlapped
       => \A m, n \in 1..Len(events) :
            (/\ events[m].kind = "write" /\ events[n].kind = "write"
             /\ events[m].path = events[n].path)
            => m = n
  /\ \A n \in 1..Len(events) :
       events[n].kind = "write"
       => \E m \in 1..(n - 1) :
            /\ events[m] = [session |-> events[n].session, kind |-> "check",
                            path |-> events[n].path]
            /\ \A q \in WriteEvents(events[n].path) : m < q

\* C14 witness: both sessions passed the exists check for B before either
\* wrote B.json; both evaluated B and B.json was written twice.
C14_Witness ==
  /\ overlapped
  /\ \E c1, c2, w1, w2 \in 1..Len(events) :
       /\ c1 < w1 /\ c1 < w2 /\ c2 < w1 /\ c2 < w2
       /\ events[c1] = [session |-> 1, kind |-> "check", path |-> "results/B.json"]
       /\ events[c2] = [session |-> 2, kind |-> "check", path |-> "results/B.json"]
       /\ events[w1] = [session |-> 1, kind |-> "write", path |-> "results/B.json"]
       /\ events[w2] = [session |-> 2, kind |-> "write", path |-> "results/B.json"]
  /\ \A p \in {1, 2} :
       \E n \in 1..Len(sess[p].evals) :
         sess[p].tasks[sess[p].evals[n].pos] = 2 /\ ~sess[p].evals[n].raised

(***************************************************************************)
(* Two runs of the same session, from the same folder contents, with the   *)
(* same output_folder and the same behaviour of evaluate, that differ in   *)
(* verbosity: sess[1] and sess[2] are the two runs, each against its own   *)
(* copy disk[1], disk[2] of the file system, stepping together.            *)
(***************************************************************************)
Verbosities == {0, 1, 2}

\* the selections run twice: all tasks, tasks=["A", a], tasks=["B", d]
TwinSelections == {<<1, 2, 3>>, <<1, 4>>, <<2, 5>>}

InitTwin ==
  /\ InitOneSessionIdle
  /\ sess \in {[c \in {1, 2} |-> new_session(ts)] : ts \in TwinSelections}
  /\ disk \in {[c \in {1, 2} |-> new_disk(old)] : old \in SUBSET OldPaths}
  /\ overlapped = FALSE
  /\ events = <<>>

twin_run_called(folder, v1, v2) ==
  /\ \A c \in {1, 2} : sess[c].pc = "ready" /\ sess[c].runs = 0
  /\ sess' = [c \in {1, 2} |-> run_entry(sess[c], folder, IF c = 1 THEN v1 ELSE v2)]
  /\ disk' = [c \in {1, 2} |-> run_entry_disk(disk[c], folder)]
  /\ UNCHANGED <<overlapped, events, singleVars>>

twin_run_step(out) ==
  /\ \E c \in {1, 2} : sess[c].pc = "running"
  /\ sess' = [c \in {1, 2} |->
                IF sess[c].pc = "running" THEN run_step(sess[c], disk[c], out)
                                          ELSE sess[c]]
  /\ disk' = [c \in {1, 2} |->
                IF sess[c].pc = "running" THEN run_step_disk(sess[c], disk[c])
                                          ELSE disk[c]]
  /\ UNCHANGED <<overlapped, events, singleVars>>

NextTwin ==
  \/ \E folder \in {NoFolder} \cup {Some(f) : f \in Folders}, v1, v2 \in Verbosities :
       twin_run_called(folder, v1, v2)
  \/ \E out \in EvaluateOutcomes : twin_run_step(out)

SpecTwin == InitTwin /\ [][NextTwin]_vars

\* C16: two runs that differ only in verbosity are at the same place of the
\* loops at every step, have made the same skips, the same evaluate calls
\* and the same writes, hold the same results, end the same way and leave
\* the same files.
C16_VerbosityNoEffect ==
  /\ sess[1].pc = sess[2].pc
  /\ sess[1].outcome = sess[2].outcome
  /\ sess[1].task_pos = sess[2].task_pos
  /\ sess[1].loop = sess[2].loop
  /\ sess[1].split_pos = sess[2].split_pos
  /\ sess[1].task_results = sess[2].task_results
  /\ sess[1].skips = sess[2].skips
  /\ sess[1].evals = sess[2].evals
  /\ sess[1].writes = sess[2].writes
  /\ disk[1] = disk[2]

\* C16 witness: A.json was there and A, B, C are selected; the run with
\* verbosity 0 printed no scores and turned the datasets logging down, the
\* run with verbosity 2 printed three and did not; both skipped A, made the
\* three evaluate calls and returned with the three files.
C16_Witness ==
  /\ \A c \in {1, 2} :
       /\ sess[c].pc = "ready" /\ sess[c].outcome = "returned"
       /\ sess[c].tasks = <<1, 2, 3>>
       /\ Len(sess[c].skips) = 1
       /\ Len(sess[c].evals) = 3
       /\ DOMAIN disk[c].files = {"results/A.json", "results/B.json", "results/C.json"}
       /\ disk[c].files["results/A.json"] = OldContent
  /\ sess[1].verbosity = 0 /\ sess[1].printed = 0 /\ sess[1].datasets_quiet
  /\ sess[2].verbosity = 2 /\ sess[2].printed = 3 /\ ~sess[2].datasets_quiet

====
